---- MODULE Spec2Model ----
(***************************************************************************)
(* Model of the MCP/Gemini bridge.                                         *)
(*   - MCPClient.process_query (mcp-client-python/client.py): the          *)
(*     multi-round tool-use loop, specification Spec.                      *)
(*   - fetch_with_retry (weather-server-python/weather.py): the retrying   *)
(*     HTTP fetch of the tool server, specification FetchSpec.             *)
(*   - main, connect_to_server and chat_loop (client.py): one run of the   *)
(*     client program, specification SessionSpec.                          *)
(*   - handle_call_tool (weather.py): one tool call served by the weather  *)
(*     server, specification ServerSpec.                                   *)
(*   - RepoSpec: a run of either program of the repository.                *)
(* Strings of the program (texts) are sequences of characters so that      *)
(* concatenation is computed, not assumed.                                 *)
(***************************************************************************)
EXTENDS Integers, Sequences, FiniteSets, TLC

\* ------------------------------------------------------------------ bounds
\* Largest number of parts in one content of a model response.
MaxParts == 2
\* Largest max_retries argument tried for fetch_with_retry (0 .. bound).
MaxRetriesArg == 4
\* Largest number of input() calls of one chat_loop.
MaxLines == 2

\* ------------------------------------------------------- program constants
max_iterations == 5
DefaultMaxRetries == 3

\* client.py:210, the fallback sentinel
Sentinel == <<"D", "e", "s", "o", "l", "e">>

\* ------------------------------------------------------------- data shapes
\* A part of a content.  fc = "" : no function_call attribute or a falsy one.
\* hasText = FALSE : the part has no attribute `text`.
PartPlain == [fc |-> "", hasText |-> FALSE, text |-> <<>>]
PartText  == [fc |-> "", hasText |-> TRUE,  text |-> <<"t">>]
PartFC(n) == [fc |-> n,  hasText |-> TRUE,  text |-> <<>>]

\* Names the model may put in a function call: a tool of the weather server
\* and a name the server does not know.
RequestNames == {"get_alerts", "no_such_tool"}

Parts == {PartPlain, PartText} \cup {PartFC(n) : n \in RequestNames}

RECURSIVE SeqsUpTo(_, _)
SeqsUpTo(S, n) ==
    IF n = 0 THEN {<<>>}
    ELSE LET shorter == SeqsUpTo(S, n - 1)
         IN  shorter \cup {Append(s, x) : s \in {t \in shorter : Len(t) = n - 1}, x \in S}

\* A candidate.  content: "noattr" (no attribute), "none" (falsy), "obj".
\* parts (of an "obj" content): "noattr", "none", "list" with the list in `list`.
CandNoContentAttr == [content |-> "noattr", parts |-> "noattr", list |-> <<>>]
CandContentNone   == [content |-> "none",   parts |-> "noattr", list |-> <<>>]
CandNoPartsAttr   == [content |-> "obj",    parts |-> "noattr", list |-> <<>>]
CandPartsNone     == [content |-> "obj",    parts |-> "none",   list |-> <<>>]
CandParts(l)      == [content |-> "obj",    parts |-> "list",   list |-> l]

FirstCandidates ==
    {CandNoContentAttr, CandContentNone, CandNoPartsAttr, CandPartsNone}
        \cup {CandParts(l) : l \in SeqsUpTo(Parts, MaxParts)}

\* Further candidates of a response (the loop only looks at candidates[0],
\* the final extraction at all of them).
OtherCandidates ==
    {CandParts(<<PartFC("get_alerts"), [fc |-> "", hasText |-> TRUE, text |-> <<"u">>]>>)}

\* The `text` accessor of a response: absent, empty, or a text.
TextAccessors ==
    {[has |-> FALSE, val |-> <<>>], [has |-> TRUE, val |-> <<>>],
     [has |-> TRUE, val |-> <<"a">>]}

CandidateLists ==
    {<<>>} \cup {<<c>> : c \in FirstCandidates}
           \cup {<<c, d>> : c \in FirstCandidates, d \in OtherCandidates}

Responses == [text : TextAccessors, candidates : CandidateLists]

NoResponse == [text |-> [has |-> FALSE, val |-> <<>>], candidates |-> <<>>]

\* Content blocks of a tool result: a text block or a block without `text`.
BlockText(s) == [hasText |-> TRUE, text |-> s]
BlockImage   == [hasText |-> FALSE, text |-> <<>>]

\* What session.call_tool can return.
ToolResults ==
    {[content |-> <<BlockImage, BlockText(<<"r">>), BlockText(<<"s">>)>>, isError |-> FALSE],
     [content |-> <<>>, isError |-> FALSE],
     [content |-> <<BlockText(<<"e">>)>>, isError |-> TRUE]}

\* The catalogs list_tools may have returned (weather.py:50-83 or none).
Tool(n, d) == [name |-> n, description |-> d, inputSchema |-> n]
WeatherTools == <<Tool("get_forecast", "forecast"), Tool("get_alerts", "alerts")>>
Catalogs == {<<>>, WeatherTools}

\* ------------------------------------------------------------------ state
VARIABLES
    tools,              \* self.tools
    pc,                 \* position in process_query
    response,           \* local `response`
    iteration,          \* local `iteration`
    function_calls,     \* local `function_calls`
    function_responses, \* local `function_responses`
    idx,                \* position of the `for function_call in function_calls` loop
    inflight,           \* the call_tool requests awaited (position, name)
    history,            \* the chat's transcript: roles of its entries
    wire,               \* the chat.send_message awaiting the model's response
    sends,              \* number of chat.send_message calls of this query
    rounds,             \* number of tool-result batches sent
    dispatched,         \* per position of function_calls: calls of call_tool
    call_log,           \* this round's call_tool calls in dispatch order
    undispatched,       \* requests surfaced by the model and not yet dispatched
    outcome,            \* "none", "returned" or "raised"
    final_response,     \* the returned string
    max_retries,        \* fetch_with_retry: argument
    f_pc,               \* fetch_with_retry: position
    attempt,            \* fetch_with_retry: loop variable
    requests,           \* fetch_with_retry: outcomes of client.get so far
    sleeps,             \* fetch_with_retry: delays slept, in order
    f_outcome,          \* fetch_with_retry: how the call ended
    f_result,           \* fetch_with_retry: the response returned or the error raised
    program,            \* which program runs: "client" (client.py) or "server" (weather.py)
    m_pc,               \* position in main / connect_to_server / chat_loop
    m_exc,              \* the exception leaving main: "none", "error", "interrupt"
    proto,              \* the protocol calls made before any call_tool, in order
    stack,              \* the contexts held by self.exit_stack
    cleanups,           \* number of client.cleanup() calls
    lines,              \* number of input() calls
    quit_read,          \* a line equal to quit was read
    printed,            \* what chat_loop printed last: "none", "response", "error"
    queries,            \* number of process_query calls
    spent,              \* an earlier query of the session used all max_iterations rounds
    transport,          \* the stdio channel to the server: "up" or "broken"
    last_line,          \* the line input() returned last, until it is sent as a query
    h_pc,               \* handle_call_tool: position
    h_name,             \* handle_call_tool: argument `name`
    h_args,             \* handle_call_tool: argument `arguments`
    h_client,           \* handle_call_tool: the httpx.AsyncClient
    h_fetches,          \* handle_call_tool: the fetch_with_retry calls that ended, in order
    h_current,          \* handle_call_tool: the fetch_with_retry call that is running
    h_outcome           \* handle_call_tool: content returned or error raised

clientVars == <<tools, pc, response, iteration, function_calls, function_responses,
                idx, inflight, history, wire, sends, rounds, dispatched, call_log,
                undispatched, outcome, final_response>>
fetchVars == <<max_retries, f_pc, attempt, requests, sleeps, f_outcome, f_result>>
sessionRest == <<program, m_pc, m_exc, proto, stack, cleanups, lines, quit_read, printed,
                 queries, spent>>
sessionVars == <<sessionRest, transport, last_line>>
serverVars == <<h_pc, h_name, h_args, h_client, h_fetches, h_current, h_outcome>>
vars == <<clientVars, fetchVars, sessionVars, serverVars>>

\* ------------------------------------------------- process_query: helpers
\* client.py:103-117
convert_tools_to_gemini_format(ts) ==
    [i \in 1..Len(ts) |->
        [function_declarations |->
            <<[name |-> ts[i].name, description |-> ts[i].description,
               parameters |-> ts[i].inputSchema]>>]]

\* client.py:129, `tools=gemini_tools if gemini_tools else None`
ToolsArgument(gemini_tools) ==
    IF gemini_tools # <<>> THEN [none |-> FALSE, decls |-> gemini_tools]
    ELSE [none |-> TRUE, decls |-> <<>>]

NoToolsArgument == [none |-> TRUE, decls |-> <<>>]

\* client.py:140-153, the four breaks on an uninterpretable shape
MalformedShape(r) ==
    IF r.candidates = <<>> THEN TRUE
    ELSE IF r.candidates[1].content \in {"noattr", "none"} THEN TRUE
    ELSE IF r.candidates[1].parts = "noattr" THEN TRUE
    ELSE r.candidates[1].parts = "none" \/ Len(r.candidates[1].list) = 0

IsFunctionCall(part) == part.fc # ""

\* Variant: only the first function call of the response is kept
ExtractFunctionCalls_FirstOnly(parts) ==
    LET all == SelectSeq(parts, IsFunctionCall)
    IN  IF all = <<>> THEN <<>> ELSE <<Head(all)>>

\* client.py:156-159
ExtractFunctionCalls(parts) == SelectSeq(parts, IsFunctionCall)

\* Variant: `while iteration <= max_iterations`
LoopCondition_OffByOne(it) == it <= max_iterations

\* client.py:136, the loop condition
LoopCondition(it) == it < max_iterations

RECURSIVE ConcatText(_)
ConcatText(items) ==
    IF items = <<>> THEN <<>>
    ELSE (IF Head(items).hasText THEN Head(items).text ELSE <<>>) \o ConcatText(Tail(items))

\* client.py:178-182
ResultText(result) == ConcatText(result.content)

\* client.py:184-191
FunctionResponse(tool_name, result_text) == [name |-> tool_name, response |-> result_text]

\* Variant: `function_responses = [part]`, the list is overwritten
AppendResponse_Overwrite(rs, r) == <<r>>

\* Variant: `function_responses.insert(0, part)`
AppendResponse_Prepend(rs, r) == <<r>> \o rs

\* client.py:184, function_responses.append(...)
AppendResponse(rs, r) == Append(rs, r)

\* client.py:203-208, the text of one candidate in the manual extraction
CandidateText(c) ==
    IF c.content = "obj" /\ c.parts = "list" /\ Len(c.list) > 0
    THEN ConcatText(c.list) ELSE <<>>

RECURSIVE CandidatesText(_)
CandidatesText(cs) ==
    IF cs = <<>> THEN <<>> ELSE CandidateText(Head(cs)) \o CandidatesText(Tail(cs))

\* client.py:196-212
FinalResponse(r) ==
    IF r.text.has /\ r.text.val # <<>> THEN r.text.val
    ELSE IF r.candidates # <<>> THEN CandidatesText(r.candidates)
    ELSE Sentinel

\* Variant: the response is not recorded in the transcript
Transcript_Drop(h, r) == h

\* The chat's transcript when a response arrives: the content of the
\* response, when it carries one, follows the content sent
\* (client.py:127-130, 194).
Transcript(h, r) ==
    IF r.candidates # <<>> THEN Append(h, "assistant") ELSE h

NoMessage == [kind |-> "none", batch |-> <<>>, tools |-> NoToolsArgument]

\* The tool-call requests a response surfaces in its first candidate, read
\* off the response itself.
RECURSIVE CountRequests(_)
CountRequests(parts) ==
    IF parts = <<>> THEN 0
    ELSE (IF Head(parts).fc # "" THEN 1 ELSE 0) + CountRequests(Tail(parts))

NumRequests(r) ==
    IF r.candidates = <<>> THEN 0
    ELSE IF r.candidates[1].content = "obj" /\ r.candidates[1].parts = "list"
         THEN CountRequests(r.candidates[1].list) ELSE 0

\* ------------------------------------------------- process_query: actions
clientLocalsUnchanged == UNCHANGED <<function_calls, function_responses, idx, inflight,
                                     dispatched, call_log>>

\* A mutation of start_chat: the chat of the previous query is kept
start_chat_Reuse(h) == h

\* client.py:124: self.model.start_chat(history=[]) opens a new chat, whatever
\* the transcript h of the chat before it
start_chat(h) == <<>>

\* client.py:119-130: the query is sent to the model
StartQuery ==
    /\ pc = "idle"
    /\ wire' = [kind |-> "query", batch |-> <<>>,
                tools |-> ToolsArgument(convert_tools_to_gemini_format(tools))]
    /\ history' = Append(start_chat(history), "user")
    /\ sends' = sends + 1
    /\ pc' = "model"
    /\ last_line' = <<>>
    /\ clientLocalsUnchanged
    /\ UNCHANGED <<tools, response, iteration, rounds, undispatched, outcome,
                   final_response, fetchVars, sessionRest, transport, serverVars>>

\* client.py:127-130 and 194: the message of chat.send_message reaches the
\* model.  While process_query waits for the answer, the previous response
\* and the locals of the finished round are dead (lines 127/194, 156 and 165
\* assign them again before any read) and are cleared.
ModelTakes ==
    /\ pc = "model"
    /\ wire' = NoMessage
    /\ response' = NoResponse
    /\ function_calls' = <<>>
    /\ function_responses' = <<>>
    /\ idx' = 1
    /\ dispatched' = <<>>
    /\ call_log' = <<>>
    /\ pc' = "reply"
    /\ UNCHANGED <<tools, iteration, inflight, history, sends, rounds, undispatched,
                   outcome, final_response, fetchVars, sessionVars, serverVars>>

\* client.py:127-134 and 194: chat.send_message returns the model's response;
\* after the first send the round counter is set up (lines 133-134)
ModelReply ==
    /\ pc = "reply"
    /\ \E r \in Responses :
        /\ response' = r
        /\ history' = Transcript(history, r)
        /\ undispatched' = undispatched + NumRequests(r)
    /\ iteration' = IF sends = 1 THEN 0 ELSE iteration
    /\ pc' = "loop"
    /\ clientLocalsUnchanged
    /\ UNCHANGED <<tools, wire, sends, rounds, outcome, final_response, fetchVars, sessionVars, serverVars>>

ToExtract ==
    /\ pc' = "extract"
    /\ clientLocalsUnchanged
    /\ UNCHANGED <<tools, response, history, wire, sends, rounds, undispatched,
                   outcome, final_response, fetchVars, sessionVars, serverVars>>

\* client.py:136: the loop condition fails, the round bound is used up
LoopExit ==
    /\ pc = "loop"
    /\ ~LoopCondition(iteration)
    /\ UNCHANGED iteration
    /\ ToExtract

\* Variant: the shape checks are missing and candidates[0] (or .content,
\* .parts) is read from a response that lacks it, which raises
BreakMalformed_Raises ==
    /\ pc = "loop"
    /\ LoopCondition(iteration)
    /\ MalformedShape(response)
    /\ iteration' = iteration + 1
    /\ outcome' = "raised"
    /\ pc' = "done"
    /\ clientLocalsUnchanged
    /\ UNCHANGED <<tools, response, history, wire, sends, rounds, undispatched,
                   final_response, fetchVars, sessionVars, serverVars>>

\* client.py:137-153: break on a response whose shape cannot be read
BreakMalformed ==
    /\ pc = "loop"
    /\ LoopCondition(iteration)
    /\ MalformedShape(response)
    /\ iteration' = iteration + 1
    /\ ToExtract

\* client.py:155-162: break on a response without function calls
BreakNoCalls ==
    /\ pc = "loop"
    /\ LoopCondition(iteration)
    /\ ~MalformedShape(response)
    /\ ExtractFunctionCalls(response.candidates[1].list) = <<>>
    /\ iteration' = iteration + 1
    /\ ToExtract

\* client.py:137-165: a round with function calls begins
BeginRound ==
    /\ pc = "loop"
    /\ LoopCondition(iteration)
    /\ ~MalformedShape(response)
    /\ ExtractFunctionCalls(response.candidates[1].list) # <<>>
    /\ iteration' = iteration + 1
    /\ function_calls' = ExtractFunctionCalls(response.candidates[1].list)
    /\ function_responses' = <<>>
    /\ idx' = 1
    /\ dispatched' = [i \in 1..Len(function_calls') |-> 0]
    /\ call_log' = <<>>
    /\ pc' = "call"
    /\ UNCHANGED <<tools, response, inflight, history, wire, sends, rounds,
                   undispatched, outcome, final_response, fetchVars, sessionVars, serverVars>>

\* client.py:167-175: session.call_tool is called for the next function call
CallToolStart ==
    /\ pc = "call"
    /\ idx <= Len(function_calls)
    /\ inflight' = inflight \cup {[pos |-> idx, name |-> function_calls[idx].fc]}
    /\ dispatched' = [dispatched EXCEPT ![idx] = @ + 1]
    /\ undispatched' = undispatched - 1
    /\ pc' = "await"
    /\ UNCHANGED <<tools, response, iteration, function_calls, function_responses, idx,
                   history, wire, sends, rounds, call_log, outcome, final_response,
                   fetchVars, sessionVars, serverVars>>

\* client.py:175-191: call_tool returns, the result is appended
CallToolReturn ==
    /\ pc = "await"
    /\ transport = "up"
    /\ \E result \in ToolResults :
        LET tool_name == function_calls[idx].fc
        IN  /\ function_responses' =
                   AppendResponse(function_responses,
                                  FunctionResponse(tool_name, ResultText(result)))
            /\ call_log' = Append(call_log,
                                  [pos |-> idx, name |-> tool_name, result |-> result])
    /\ inflight' = {}
    /\ idx' = idx + 1
    /\ pc' = "call"
    /\ UNCHANGED <<tools, response, iteration, function_calls, history, wire, sends,
                   rounds, dispatched, undispatched, outcome, final_response, fetchVars, sessionVars, serverVars>>

\* The errors self.session.call_tool can raise: an error reported by the server for
\* this call, or the failure of the stdio channel itself (both are subclasses of
\* Exception)
CallErrors == {"tool_error", "transport_error"}

\* client.py:175: call_tool raises; nothing in process_query catches it. A channel
\* that failed stays failed: every later call on the session raises too.
CallToolRaise ==
    /\ pc = "await"
    /\ \E e \in CallErrors :
        /\ transport = "broken" => e = "transport_error"
        /\ transport' = IF e = "transport_error" THEN "broken" ELSE transport
    /\ inflight' = {}
    /\ outcome' = "raised"
    /\ pc' = "done"
    /\ UNCHANGED <<tools, response, iteration, function_calls, function_responses, idx,
                   history, wire, sends, rounds, dispatched, call_log, undispatched,
                   final_response, fetchVars, sessionRest, last_line, serverVars>>

\* client.py:193-194: the batch of results is sent to the model
SendResults ==
    /\ pc = "call"
    /\ idx > Len(function_calls)
    /\ wire' = [kind |-> "function_responses", batch |-> function_responses,
                tools |-> NoToolsArgument]
    /\ history' = Append(history, "tool")
    /\ sends' = sends + 1
    /\ rounds' = rounds + 1
    /\ pc' = "model"
    /\ UNCHANGED <<tools, response, iteration, function_calls, function_responses, idx,
                   inflight, dispatched, call_log, undispatched, outcome, final_response,
                   fetchVars, sessionVars, serverVars>>

\* client.py:196-212: the final answer is extracted and returned
ReturnFinal ==
    /\ pc = "extract"
    /\ final_response' = FinalResponse(response)
    /\ outcome' = "returned"
    /\ pc' = "done"
    /\ clientLocalsUnchanged
    /\ UNCHANGED <<tools, response, iteration, history, wire, sends, rounds,
                   undispatched, fetchVars, sessionVars, serverVars>>

\* The locals of process_query before its first statement
ClientFrame ==
    /\ response = NoResponse
    /\ iteration = 0
    /\ function_calls = <<>>
    /\ function_responses = <<>>
    /\ idx = 1
    /\ inflight = {}
    /\ history = <<>>
    /\ wire = NoMessage
    /\ sends = 0
    /\ rounds = 0
    /\ dispatched = <<>>
    /\ call_log = <<>>
    /\ undispatched = 0
    /\ outcome = "none"
    /\ final_response = <<>>

\* process_query has just been called on a connected client
ClientInit ==
    /\ tools \in Catalogs
    /\ pc = "idle"
    /\ ClientFrame

\* ------------------------------------------------------- fetch_with_retry
\* How one `client.get` + `raise_for_status` can end (weather.py:25-28):
\* a good response, httpx.TimeoutException, httpx.HTTPStatusError, or an
\* exception of another class (e.g. httpx.ConnectError).
\* Variant: `except Exception`, every failure is retried
Retryable_All == {"timeout", "status", "other"}

Retryable == {"timeout", "status"}
RequestOutcomes == {"ok", "other"} \cup Retryable

RetryArguments == 0..MaxRetriesArg

\* weather.py:23, `attempt in range(max_retries)`
InRange(a, m) == a < m

\* weather.py:29, `attempt == max_retries - 1`
IsLastAttempt(a, m) == a = m - 1

RECURSIVE Pow2(_)
Pow2(n) == IF n = 0 THEN 1 ELSE 2 * Pow2(n - 1)

\* Variant: `2 ** (attempt + 1)`
Backoff_Shifted(a) == Pow2(a + 1)

\* weather.py:31, the delay slept after the failed attempt a
Backoff(a) == Pow2(a)

fetchRest == UNCHANGED <<clientVars, sessionVars, serverVars>>

\* weather.py:16-22: the call
FetchCall ==
    /\ f_pc = "idle"
    /\ \E m \in RetryArguments : max_retries' = m
    /\ attempt' = 0
    /\ f_pc' = "loop"
    /\ UNCHANGED <<requests, sleeps, f_outcome, f_result>>
    /\ fetchRest

\* weather.py:25-27: the request succeeds and its response is returned
FetchOk ==
    /\ f_pc = "loop"
    /\ InRange(attempt, max_retries)
    /\ requests' = Append(requests, "ok")
    /\ f_outcome' = "returned"
    /\ f_result' = [req |-> Len(requests'), kind |-> "ok"]
    /\ f_pc' = "done"
    /\ UNCHANGED <<max_retries, attempt, sleeps>>
    /\ fetchRest

\* weather.py:25-31: a retryable failure before the last attempt
FetchRetry ==
    /\ f_pc = "loop"
    /\ InRange(attempt, max_retries)
    /\ ~IsLastAttempt(attempt, max_retries)
    /\ \E o \in Retryable : requests' = Append(requests, o)
    /\ f_pc' = "sleep"
    /\ UNCHANGED <<max_retries, attempt, sleeps, f_outcome, f_result>>
    /\ fetchRest

\* weather.py:31 and 23: the sleep ends, the next attempt begins
FetchSleep ==
    /\ f_pc = "sleep"
    /\ sleeps' = Append(sleeps, Backoff(attempt))
    /\ attempt' = attempt + 1
    /\ f_pc' = "loop"
    /\ UNCHANGED <<max_retries, requests, f_outcome, f_result>>
    /\ fetchRest

\* weather.py:28-30: a retryable failure on the last attempt is re-raised
FetchGiveUp ==
    /\ f_pc = "loop"
    /\ InRange(attempt, max_retries)
    /\ IsLastAttempt(attempt, max_retries)
    /\ \E o \in Retryable :
        /\ requests' = Append(requests, o)
        /\ f_result' = [req |-> Len(requests'), kind |-> o]
    /\ f_outcome' = "raised"
    /\ f_pc' = "done"
    /\ UNCHANGED <<max_retries, attempt, sleeps>>
    /\ fetchRest

\* weather.py:25-28: an exception the except clause does not name propagates
FetchFatal ==
    /\ f_pc = "loop"
    /\ InRange(attempt, max_retries)
    /\ \E o \in RequestOutcomes \ (Retryable \cup {"ok"}) :
        /\ requests' = Append(requests, o)
        /\ f_result' = [req |-> Len(requests'), kind |-> o]
    /\ f_outcome' = "raised"
    /\ f_pc' = "done"
    /\ UNCHANGED <<max_retries, attempt, sleeps>>
    /\ fetchRest

\* weather.py:23: the range is used up, the function falls off its end
\* and returns None
FetchFallOff ==
    /\ f_pc = "loop"
    /\ ~InRange(attempt, max_retries)
    /\ f_outcome' = "returned_none"
    /\ f_pc' = "done"
    /\ UNCHANGED <<max_retries, attempt, requests, sleeps, f_result>>
    /\ fetchRest

FetchIdle ==
    /\ max_retries = DefaultMaxRetries
    /\ f_pc = "idle"
    /\ attempt = 0
    /\ requests = <<>>
    /\ sleeps = <<>>
    /\ f_outcome = "none"
    /\ f_result = [req |-> 0, kind |-> "none"]

\* ------------------------------------------- main, connect, chat_loop
\* The characters of the lines typed at the prompt
LowerChar(c) ==
    CASE c = "Q" -> "q"
      [] c = "U" -> "u"
      [] c = "I" -> "i"
      [] c = "T" -> "t"
      [] OTHER -> c

\* str.lower
Lower(l) == [i \in DOMAIN l |-> LowerChar(l[i])]

RECURSIVE LStrip(_)
LStrip(l) == IF l # <<>> /\ Head(l) = " " THEN LStrip(Tail(l)) ELSE l

RECURSIVE RStrip(_)
RStrip(l) == IF l # <<>> /\ l[Len(l)] = " " THEN RStrip(SubSeq(l, 1, Len(l) - 1)) ELSE l

\* str.strip
Strip(l) == RStrip(LStrip(l))

\* client.py:226: query.lower() == 'quit'
IsQuit(query) == Lower(query) = <<"q", "u", "i", "t">>

\* The lines input() can return: quit, " QuIT ", the empty line, a blank line,
\* "hi", "quite" and "q uit"
InputLines ==
    { <<"q", "u", "i", "t">>, <<" ", "Q", "u", "I", "T", " ">>, <<>>, <<" ">>,
      <<"h", "i">>, <<"q", "u", "i", "t", "e">>, <<"q", " ", "u", "i", "t">> }

\* A call made on the session, and whether it returned (or raised)
ProtoCall(c, ok) == [call |-> c, returned |-> ok]

\* What can leave a coroutine that is waiting: an Exception, or a BaseException
\* that is not one (KeyboardInterrupt, asyncio.CancelledError)
Raised == {"error", "interrupt"}

\* A mutation of AfterException: main has no finally clause
AfterException_NoFinally(e) == IF e = "none" THEN "cleanup" ELSE "ended"

\* client.py:256-260: connect_to_server and chat_loop run inside try/finally, so
\* control reaches client.cleanup() whether or not an exception e is in flight
AfterException(e) == "cleanup"

\* client.py:243-250: too few command-line arguments; main prints the usage and
\* returns before a client exists
MainUsage ==
    /\ program = "client" /\ m_pc = "start"
    /\ m_pc' = "usage"
    /\ UNCHANGED <<clientVars, fetchVars, program, m_exc, proto, stack, cleanups, lines,
                   quit_read, printed, queries, spent, transport, last_line, serverVars>>

\* client.py:254 with 21-58: MCPClient() calls exit(1) on a missing key or an
\* unusable model; the call is outside main's try
MainConfigError ==
    /\ program = "client" /\ m_pc = "start"
    /\ m_exc' = "exit"
    /\ m_pc' = "exit"
    /\ UNCHANGED <<clientVars, fetchVars, program, proto, stack, cleanups, lines,
                   quit_read, printed, queries, spent, transport, last_line, serverVars>>

\* client.py:254-257: the client is built and main enters its try block
MainStart ==
    /\ program = "client" /\ m_pc = "start"
    /\ m_pc' = "connect"
    /\ UNCHANGED <<clientVars, fetchVars, program, m_exc, proto, stack, cleanups, lines,
                   quit_read, printed, queries, spent, transport, last_line, serverVars>>

\* client.py:70-87: the script path is accepted and the stdio transport is
\* entered on the exit stack
ConnectOpenStdio ==
    /\ m_pc = "connect"
    /\ stack' = stack \cup {"stdio"}
    /\ m_pc' = "stdio"
    /\ UNCHANGED <<clientVars, fetchVars, program, m_exc, proto, cleanups, lines,
                   quit_read, printed, queries, spent, transport, last_line, serverVars>>

\* client.py:90-92: the ClientSession is entered on the exit stack
ConnectOpenSession ==
    /\ m_pc = "stdio"
    /\ stack' = stack \cup {"session"}
    /\ m_pc' = "opened"
    /\ UNCHANGED <<clientVars, fetchVars, program, m_exc, proto, cleanups, lines,
                   quit_read, printed, queries, spent, transport, last_line, serverVars>>

\* A mutation of ProtocolStep: the catalog is asked for before the handshake
ProtocolStep_Swapped(at) == IF at = "opened" THEN "list_tools" ELSE "initialize"

\* client.py:94 and 97: the call connect_to_server makes once the session is
\* opened (initialize), and the one it makes after that (list_tools)
ProtocolStep(at) == IF at = "opened" THEN "initialize" ELSE "list_tools"

\* client.py:94: await self.session.initialize()
ConnectInitialize ==
    /\ m_pc = "opened"
    /\ proto' = Append(proto, ProtoCall(ProtocolStep("opened"), TRUE))
    /\ m_pc' = "initialized"
    /\ UNCHANGED <<clientVars, fetchVars, program, m_exc, stack, cleanups, lines,
                   quit_read, printed, queries, spent, transport, last_line, serverVars>>

\* client.py:97-101 and 257-258: list_tools returns the catalog, which is stored
\* in self.tools; connect_to_server returns and chat_loop starts
ConnectListTools ==
    /\ m_pc = "initialized"
    /\ proto' = Append(proto, ProtoCall(ProtocolStep("initialized"), TRUE))
    /\ tools' \in Catalogs
    /\ m_pc' = "read"
    /\ UNCHANGED <<pc, response, iteration, function_calls, function_responses, idx,
                   inflight, history, wire, sends, rounds, dispatched, call_log,
                   undispatched, outcome, final_response, fetchVars, program, m_exc,
                   stack, cleanups, lines, quit_read, printed, queries, spent, transport,
                   last_line, serverVars>>

\* client.py:73-74, 85-98: a step of connect_to_server raises (the path is
\* neither .py nor .js, the server cannot be started, initialize or list_tools
\* fails, or the wait is interrupted); main's finally takes over
ConnectRaise ==
    /\ m_pc \in {"connect", "stdio", "opened", "initialized"}
    /\ \E e \in Raised : m_exc' = e /\ m_pc' = AfterException(e)
    /\ proto' = CASE m_pc = "opened" -> Append(proto, ProtoCall(ProtocolStep("opened"), FALSE))
                  [] m_pc = "initialized" ->
                         Append(proto, ProtoCall(ProtocolStep("initialized"), FALSE))
                  [] OTHER -> proto
    /\ UNCHANGED <<clientVars, fetchVars, program, stack, cleanups, lines, quit_read,
                   printed, queries, spent, transport, last_line, serverVars>>

\* What chat_loop leaves alone when it reads a line that starts no query
chatRest == UNCHANGED <<clientVars, fetchVars, program, m_exc, proto, stack, cleanups,
                        queries, spent, transport, serverVars>>

\* client.py:224-228: the line read, trimmed, is quit in any case: break;
\* chat_loop returns and main's finally takes over
ChatQuit ==
    /\ m_pc = "read" /\ lines < MaxLines
    /\ \E line \in InputLines : IsQuit(Strip(line)) /\ last_line' = line
    /\ lines' = lines + 1
    /\ quit_read' = TRUE
    /\ m_pc' = AfterException("none")
    /\ UNCHANGED printed
    /\ chatRest

\* client.py:230-231: the line read is empty once trimmed: continue
ChatEmpty ==
    /\ m_pc = "read" /\ lines < MaxLines
    /\ \E line \in InputLines :
        ~IsQuit(Strip(line)) /\ Strip(line) = <<>> /\ last_line' = line
    /\ lines' = lines + 1
    /\ m_pc' = "read"
    /\ UNCHANGED <<quit_read, printed>>
    /\ chatRest

\* client.py:224 and 236-237: input() raises an Exception (EOFError on a closed
\* stdin); the handler prints it and the loop reads again
ChatInputError ==
    /\ m_pc = "read" /\ lines < MaxLines
    /\ lines' = lines + 1
    /\ printed' = "error"
    /\ m_pc' = "read"
    /\ UNCHANGED <<quit_read, last_line>>
    /\ chatRest

\* client.py:233 with 119-134: any other line is a query; process_query is
\* called and its frame starts afresh (the chat of the query before is still
\* the last one opened until line 124 opens the next)
ChatQuery ==
    /\ m_pc = "read" /\ lines < MaxLines
    /\ \E line \in InputLines :
        ~IsQuit(Strip(line)) /\ Strip(line) # <<>> /\ last_line' = line
    /\ lines' = lines + 1
    /\ queries' = queries + 1
    /\ spent' = (spent \/ rounds = max_iterations)
    /\ m_pc' = "query"
    /\ pc' = "idle"
    /\ response' = NoResponse
    /\ iteration' = 0
    /\ function_calls' = <<>>
    /\ function_responses' = <<>>
    /\ idx' = 1
    /\ inflight' = {}
    /\ wire' = NoMessage
    /\ sends' = 0
    /\ rounds' = 0
    /\ dispatched' = <<>>
    /\ call_log' = <<>>
    /\ undispatched' = 0
    /\ outcome' = "none"
    /\ final_response' = <<>>
    /\ UNCHANGED <<tools, history, fetchVars, program, m_exc, proto, stack, cleanups,
                   quit_read, printed, transport, serverVars>>

\* client.py:233-237: process_query has ended and its frame is gone: its
\* locals are dead, whatever they held
FrameGone ==
    /\ response' = NoResponse
    /\ function_calls' = <<>>
    /\ function_responses' = <<>>
    /\ idx' = 1
    /\ dispatched' = <<>>
    /\ call_log' = <<>>
    /\ final_response' = <<>>
    /\ UNCHANGED <<tools, pc, iteration, inflight, history, wire, sends, rounds,
                   undispatched, outcome>>

\* client.py:233-234: process_query returned; the answer is printed and the
\* loop reads the next line
ChatQueryReturn ==
    /\ m_pc = "query" /\ pc = "done" /\ outcome = "returned"
    /\ printed' = "response"
    /\ m_pc' = "read"
    /\ FrameGone
    /\ UNCHANGED <<lines, quit_read, last_line>>
    /\ UNCHANGED <<fetchVars, program, m_exc, proto, stack, cleanups, queries, spent,
                   transport, serverVars>>

\* A mutation of AfterQueryError: the error leaves chat_loop
AfterQueryError_Escapes == "cleanup"

\* client.py:236-237: `except Exception` is inside the while loop, so after the
\* handler the loop goes on to its next input()
AfterQueryError == "read"

\* client.py:236-237: process_query raised an Exception, whatever its class; the
\* handler prints it
ChatQueryError ==
    /\ m_pc = "query" /\ pc = "done" /\ outcome = "raised"
    /\ printed' = "error"
    /\ m_pc' = AfterQueryError
    /\ m_exc' = IF AfterQueryError = "read" THEN m_exc ELSE "error"
    /\ FrameGone
    /\ UNCHANGED <<fetchVars, program, proto, stack, cleanups, lines, quit_read,
                   queries, spent, transport, last_line, serverVars>>

\* client.py:224, 175 and 236: a KeyboardInterrupt at input(), or the
\* cancellation of the task while it awaits call_tool, is no Exception: the
\* handler of line 236 does not catch it and it leaves chat_loop
ChatInterrupt ==
    /\ \/ m_pc = "read"
       \/ m_pc = "query" /\ pc = "await"
    /\ m_exc' = "interrupt"
    /\ m_pc' = AfterException("interrupt")
    /\ pc' = "off"
    /\ inflight' = {}
    /\ UNCHANGED <<tools, response, iteration, function_calls, function_responses, idx,
                   history, wire, sends, rounds, dispatched, call_log, undispatched,
                   outcome, final_response, fetchVars, program, proto, stack, cleanups,
                   lines, quit_read, printed, queries, spent, transport, last_line, serverVars>>

\* client.py:239-241 and 259-260: cleanup closes the exit stack, which exits the
\* session and the transport; then main ends, re-raising what was in flight
Cleanup ==
    /\ m_pc = "cleanup"
    /\ cleanups' = cleanups + 1
    /\ stack' = {}
    /\ m_pc' = "ended"
    /\ UNCHANGED <<clientVars, fetchVars, program, m_exc, proto, lines, quit_read,
                   printed, queries, spent, transport, last_line, serverVars>>

\* ------------------------------------------------------ handle_call_tool
\* The tool names a call can carry: the two tools of the server and another
ToolNames == {"get_forecast", "get_alerts", "get_tides"}

\* The value arguments.get(key) yields: "absent" stands for None (no such
\* key); "0" for the number 0, "37" for another number; "" for the empty
\* string, "CA" for a state code
Coordinates == {"absent", "0", "37"}
States == {"absent", "", "CA"}

\* arguments is None
NoArguments == [none |-> TRUE, latitude |-> "absent", longitude |-> "absent",
                state |-> "absent"]

\* arguments is a dict, possibly the empty one
ArgumentDicts == [none : {FALSE}, latitude : Coordinates, longitude : Coordinates,
                  state : States]

\* Python's truth value of a value is False
Falsy(v) == v \in {"absent", "0", ""}

\* weather.py:93: `not arguments`: None, or a dict without keys
NotArguments(a) ==
    a.none \/ (a.latitude = "absent" /\ a.longitude = "absent" /\ a.state = "absent")

\* A mutation of MissingCoordinate: the truth value is tested
MissingCoordinate_Falsy(v) == Falsy(v)

\* weather.py:101: `latitude is None`
MissingCoordinate(v) == v = "absent"

\* weather.py:128: `not state`
MissingState(v) == Falsy(v)

\* A mutation of FetchReturned: the handler goes on after a fetch that raised
FetchReturned_Any(o) == TRUE

\* weather.py:106, 111, 133: the statement after `await fetch_with_retry(...)`
\* runs only when the call returned
FetchReturned(o) == o = "returned"

\* The error a call ends with
HandlerError(what) == [kind |-> "error", what |-> what]

\* What the handler leaves alone
handlerRest == UNCHANGED <<clientVars, sessionVars>>

\* weather.py:86-90: the server dispatches a tools/call request to the handler
HandlerCall ==
    /\ program = "server"
    /\ h_pc \in {"idle", "done"}
    /\ h_name' \in ToolNames
    /\ h_args' \in ArgumentDicts \cup {NoArguments}
    /\ h_client' = "unopened"
    /\ h_fetches' = <<>>
    /\ h_current' = "none"
    /\ h_outcome' = [kind |-> "none", what |-> "none"]
    /\ h_pc' = "entry"
    /\ UNCHANGED fetchVars
    /\ handlerRest

\* weather.py:93-94: no arguments: ValueError before any client is opened
HandlerNoArguments ==
    /\ h_pc = "entry"
    /\ NotArguments(h_args)
    /\ h_outcome' = HandlerError("Arguments manquants")
    /\ h_pc' = "done"
    /\ UNCHANGED <<h_name, h_args, h_client, h_fetches, h_current, fetchVars>>
    /\ handlerRest

\* weather.py:96: async with httpx.AsyncClient() as client
HandlerOpenClient ==
    /\ h_pc = "entry"
    /\ ~NotArguments(h_args)
    /\ h_client' = "open"
    /\ h_pc' = "dispatch"
    /\ UNCHANGED <<h_name, h_args, h_fetches, h_current, h_outcome, fetchVars>>
    /\ handlerRest

\* weather.py:96: leaving the `async with` block, by return or by exception,
\* closes the client
HandlerLeave(result) ==
    /\ h_outcome' = result
    /\ h_client' = "closed"
    /\ h_pc' = "done"

\* weather.py:97-102: get_forecast without latitude or longitude
HandlerMissingCoordinates ==
    /\ h_pc = "dispatch"
    /\ h_name = "get_forecast"
    /\ MissingCoordinate(h_args.latitude) \/ MissingCoordinate(h_args.longitude)
    /\ HandlerLeave(HandlerError("Latitude et longitude requises"))
    /\ UNCHANGED <<h_name, h_args, h_fetches, h_current, fetchVars>>
    /\ handlerRest

\* weather.py:126-129: get_alerts without a state
HandlerMissingState ==
    /\ h_pc = "dispatch"
    /\ h_name = "get_alerts"
    /\ MissingState(h_args.state)
    /\ HandlerLeave(HandlerError("Code d'Etat requis"))
    /\ UNCHANGED <<h_name, h_args, h_fetches, h_current, fetchVars>>
    /\ handlerRest

\* weather.py:151-152: neither tool
HandlerUnknownTool ==
    /\ h_pc = "dispatch"
    /\ h_name \notin {"get_forecast", "get_alerts"}
    /\ HandlerLeave(HandlerError("Outil inconnu"))
    /\ UNCHANGED <<h_name, h_args, h_fetches, h_current, fetchVars>>
    /\ handlerRest

\* weather.py:16: the handler calls fetch_with_retry(client, url) with the
\* default max_retries
HandlerStartFetch(what) ==
    /\ h_current' = what
    /\ max_retries' = DefaultMaxRetries
    /\ attempt' = 0
    /\ requests' = <<>>
    /\ sleeps' = <<>>
    /\ f_outcome' = "none"
    /\ f_result' = [req |-> 0, kind |-> "none"]
    /\ f_pc' = "loop"
    /\ h_pc' = "fetch"

\* The fetch_with_retry call that has just ended, as the handler saw it
FetchRecord == [what |-> h_current, requests |-> Len(requests), outcome |-> f_outcome]

\* The frame of the fetch_with_retry call that ended is gone
HandlerEndFetch ==
    /\ h_fetches' = Append(h_fetches, FetchRecord)
    /\ max_retries' = DefaultMaxRetries
    /\ attempt' = 0
    /\ requests' = <<>>
    /\ sleeps' = <<>>
    /\ f_outcome' = "none"
    /\ f_result' = [req |-> 0, kind |-> "none"]

\* weather.py:105-106 and 132-133: the arguments are there; the grid point
\* (get_forecast) or the alerts (get_alerts) are fetched
HandlerFirstFetch ==
    /\ h_pc = "dispatch"
    /\ \/ /\ h_name = "get_forecast"
          /\ ~MissingCoordinate(h_args.latitude)
          /\ ~MissingCoordinate(h_args.longitude)
          /\ HandlerStartFetch("points")
       \/ /\ h_name = "get_alerts"
          /\ ~MissingState(h_args.state)
          /\ HandlerStartFetch("alerts")
    /\ UNCHANGED <<h_name, h_args, h_client, h_fetches, h_outcome>>
    /\ handlerRest

\* weather.py:106, 111, 133: fetch_with_retry raised; nothing in the handler
\* catches it, the `async with` block is left and the call fails
HandlerFetchRaised ==
    /\ h_pc = "fetch" /\ f_pc = "done"
    /\ ~FetchReturned(f_outcome)
    /\ HandlerEndFetch
    /\ f_pc' = "idle"
    /\ h_current' = "none"
    /\ HandlerLeave(HandlerError("fetch"))
    /\ UNCHANGED <<h_name, h_args>>
    /\ handlerRest

\* weather.py:107-110, 112-115, 134: the body of the response is not JSON or
\* lacks an expected key; the exception leaves the handler
HandlerParseError ==
    /\ h_pc = "fetch" /\ f_pc = "done"
    /\ FetchReturned(f_outcome)
    /\ HandlerEndFetch
    /\ f_pc' = "idle"
    /\ h_current' = "none"
    /\ HandlerLeave(HandlerError("parse"))
    /\ UNCHANGED <<h_name, h_args>>
    /\ handlerRest

\* weather.py:107-111: the grid point names the forecast URL, which is fetched
HandlerSecondFetch ==
    /\ h_pc = "fetch" /\ f_pc = "done"
    /\ FetchReturned(f_outcome)
    /\ h_current = "points"
    /\ h_fetches' = Append(h_fetches, FetchRecord)
    /\ HandlerStartFetch("forecast")
    /\ UNCHANGED <<h_name, h_args, h_client, h_outcome>>
    /\ handlerRest

\* weather.py:112-124 and 134-149: the text is built and returned: the
\* forecast, the alerts, or the sentence saying that there is no alert
HandlerReturnContent ==
    /\ h_pc = "fetch" /\ f_pc = "done"
    /\ FetchReturned(f_outcome)
    /\ h_current \in {"forecast", "alerts"}
    /\ HandlerEndFetch
    /\ f_pc' = "idle"
    /\ h_current' = "none"
    /\ \E text \in (IF h_current = "forecast" THEN {"forecast"} ELSE {"alerts", "no_alerts"}) :
        HandlerLeave([kind |-> "content", what |-> text])
    /\ UNCHANGED <<h_name, h_args>>
    /\ handlerRest

\* client.py:243: the client program starts
SessionStart ==
    /\ program = "client"
    /\ m_pc = "start"
    /\ m_exc = "none"
    /\ proto = <<>>
    /\ stack = {}
    /\ cleanups = 0
    /\ lines = 0
    /\ quit_read = FALSE
    /\ printed = "none"
    /\ queries = 0
    /\ spent = FALSE
    /\ transport = "up"
    /\ last_line = <<>>

\* client.py:233: a connected client whose chat_loop calls process_query for
\* the first line read
SessionAtQuery ==
    /\ program = "client"
    /\ m_pc = "query"
    /\ m_exc = "none"
    /\ proto = <<[call |-> "initialize", returned |-> TRUE],
                 [call |-> "list_tools", returned |-> TRUE]>>
    /\ stack = {"stdio", "session"}
    /\ cleanups = 0
    /\ lines = 1
    /\ quit_read = FALSE
    /\ printed = "none"
    /\ queries = 1
    /\ spent = FALSE
    /\ transport = "up"
    /\ last_line = <<"h", "i">>

\* The weather server runs; no client program is part of the run
SessionNone ==
    /\ program = "server"
    /\ m_pc = "none"
    /\ m_exc = "none"
    /\ proto = <<>>
    /\ stack = {}
    /\ cleanups = 0
    /\ lines = 0
    /\ quit_read = FALSE
    /\ printed = "none"
    /\ queries = 0
    /\ spent = FALSE
    /\ transport = "up"
    /\ last_line = <<>>

\* weather.py:86: no tool call is being served
ServerIdle ==
    /\ h_pc = "idle"
    /\ h_name = "none"
    /\ h_args = NoArguments
    /\ h_client = "unopened"
    /\ h_fetches = <<>>
    /\ h_current = "none"
    /\ h_outcome = [kind |-> "none", what |-> "none"]

Init == ClientInit /\ FetchIdle /\ SessionAtQuery /\ ServerIdle

Next ==
    \/ StartQuery
    \/ ModelTakes
    \/ ModelReply
    \/ LoopExit
    \/ BreakMalformed
    \/ BreakNoCalls
    \/ BeginRound
    \/ CallToolStart
    \/ CallToolReturn
    \/ CallToolRaise
    \/ SendResults
    \/ ReturnFinal

Spec == Init /\ [][Next]_vars

FetchNext ==
    \/ FetchCall
    \/ FetchOk
    \/ FetchRetry
    \/ FetchSleep
    \/ FetchGiveUp
    \/ FetchFatal
    \/ FetchFallOff

\* fetch_with_retry alone, with the client at rest
FetchInit == ClientInit /\ tools = WeatherTools /\ FetchIdle /\ SessionNone /\ ServerIdle

FetchSpec == FetchInit /\ [][FetchNext]_vars

\* The process_query run under the scheduling the event loop gives it: a
\* step that can be taken is eventually taken (the model answers, call_tool
\* returns or raises).
LiveSpec == Spec /\ WF_vars(Next)

\* client.py:64 and 243: the client program starts; self.tools is empty and
\* process_query has not been called
SessionInit ==
    /\ tools = <<>>
    /\ pc = "off"
    /\ ClientFrame
    /\ FetchIdle
    /\ SessionStart
    /\ ServerIdle

SessionNext ==
    \/ MainUsage
    \/ MainConfigError
    \/ MainStart
    \/ ConnectOpenStdio
    \/ ConnectOpenSession
    \/ ConnectInitialize
    \/ ConnectListTools
    \/ ConnectRaise
    \/ ChatQuit
    \/ ChatEmpty
    \/ ChatInputError
    \/ ChatQuery
    \/ ChatQueryReturn
    \/ ChatQueryError
    \/ ChatInterrupt
    \/ Cleanup
    \/ Next

ServerNext ==
    \/ HandlerCall
    \/ HandlerNoArguments
    \/ HandlerOpenClient
    \/ HandlerMissingCoordinates
    \/ HandlerMissingState
    \/ HandlerUnknownTool
    \/ HandlerFirstFetch
    \/ HandlerFetchRaised
    \/ HandlerParseError
    \/ HandlerSecondFetch
    \/ HandlerReturnContent
    \/ FetchOk
    \/ FetchRetry
    \/ FetchSleep
    \/ FetchGiveUp
    \/ FetchFatal

\* weather.py:154-168: the weather server runs; no process_query is part of it
ServerInit ==
    /\ tools = WeatherTools
    /\ pc = "off"
    /\ ClientFrame
    /\ FetchIdle
    /\ SessionNone
    /\ ServerIdle

\* The weather server serving tool calls: handle_call_tool and the
\* fetch_with_retry calls it makes
ServerSpec == ServerInit /\ [][ServerNext]_vars

\* One run of the client program: main, connect_to_server, chat_loop and the
\* process_query calls it makes
SessionSpec == SessionInit /\ [][SessionNext]_vars

\* The repository has two programs; a run is a run of one of them
RepoInit == SessionInit \/ ServerInit

RepoNext == SessionNext \/ ServerNext

RepoSpec == RepoInit /\ [][RepoNext]_vars

\* ================================================================ claims
\* The names of the tool-call requests of a response, in the order of its
\* first candidate's parts, read off the response.
RECURSIVE RequestedNames(_)
RequestedNames(parts) ==
    IF parts = <<>> THEN <<>>
    ELSE (IF Head(parts).fc # "" THEN <<Head(parts).fc>> ELSE <<>>)
             \o RequestedNames(Tail(parts))

RequestsOf(r) ==
    IF r.candidates = <<>> THEN <<>>
    ELSE IF r.candidates[1].content = "obj" /\ r.candidates[1].parts = "list"
         THEN RequestedNames(r.candidates[1].list) ELSE <<>>

\* A response whose shape cannot be interpreted: no candidates, a candidate
\* with no content, a content with no parts or with an empty parts list.
Uninterpretable(r) ==
    IF r.candidates = <<>> THEN TRUE
    ELSE LET c == r.candidates[1]
         IN  c.content # "obj" \/ c.parts # "list" \/ c.list = <<>>

\* The texts the final extraction can salvage from a response.
Salvageable(r) == {r.text.val, CandidatesText(r.candidates)}

\* C1: process_query terminates for every model behaviour: at most
\* max_iterations = 5 tool rounds and at most 6 model sends are made, after
\* the 5th round no further round starts, a query that used all 5 rounds
\* returns a string (salvaged text or the sentinel), and every run of
\* process_query comes to its end.
C1_Terminates ==
    /\ [](/\ iteration <= max_iterations
          /\ rounds <= max_iterations
          /\ sends <= max_iterations + 1
          /\ (rounds = max_iterations => pc \in {"model", "reply", "loop", "extract", "done"})
          /\ (pc = "done" /\ rounds = max_iterations =>
                 /\ outcome = "returned"
                 /\ final_response \in Salvageable(response) \cup {Sentinel}))
    /\ <>(pc = "done")

\* C1 witness: the model asked for tools in all six responses and the
\* query returned after the fifth round.
C1_Witness ==
    /\ pc = "done"
    /\ outcome = "returned"
    /\ rounds = max_iterations
    /\ sends = max_iterations + 1
    /\ RequestsOf(response) # <<>>

\* C2: a batch of tool results sent to the model holds one result per
\* tool-call request of the preceding response, never a partial set, and a
\* round aborted by a raising tool call sends nothing.
C2_BatchComplete ==
    /\ (wire.kind = "function_responses" =>
           /\ Len(wire.batch) = Len(RequestsOf(response))
           /\ Len(wire.batch) > 0)
    /\ (wire.kind = "query" => sends = 1)
    /\ (pc = "model" /\ sends > 1 => wire.kind = "function_responses")
    /\ (outcome = "raised" => wire = NoMessage /\ sends = rounds + 1)

\* C2 witness: after a first complete round, the second round was aborted
\* with one of its two results collected.
C2_Witness ==
    /\ outcome = "raised"
    /\ rounds = 1
    /\ Len(function_calls) = 2
    /\ Len(function_responses) = 1

\* C3 as stated: when process_query returns, every tool-call request of
\* every response has been dispatched to call_tool exactly once.
C3_Original ==
    /\ (wire.kind = "function_responses" =>
           \A i \in DOMAIN dispatched : dispatched[i] = 1)
    /\ (pc = "done" /\ outcome = "returned" => undispatched = 0)

\* C3 amended: when process_query returns, every tool-call request of the
\* first candidate of every response received before the round bound was
\* used up has been dispatched exactly once; the requests of the response
\* that answers the 5th batch are not dispatched.
C3_Amended ==
    /\ (wire.kind = "function_responses" =>
           /\ DOMAIN dispatched = 1..Len(RequestsOf(response))
           /\ \A i \in DOMAIN dispatched : dispatched[i] = 1)
    /\ (pc = "done" /\ outcome = "returned" =>
           undispatched = IF rounds = max_iterations
                          THEN Len(RequestsOf(response)) ELSE 0)

\* C3 witness: the query returned after the 5th round on a response that
\* asked for two more tool calls.
C3_Witness ==
    /\ pc = "done"
    /\ outcome = "returned"
    /\ rounds = max_iterations
    /\ undispatched = 2

\* C4 as stated: a failing tool call never ends process_query with an
\* unhandled exception.
C4_Original == outcome # "raised"

\* C6 as stated: with an empty tool catalog process_query never calls
\* call_tool and returns the text of the first response.
C6_Original ==
    tools = <<>> => /\ pc \notin {"call", "await"}
                    /\ rounds = 0
                    /\ inflight = {}

\* C7: after a query with N tool rounds the transcript is one user entry,
\* N pairs (assistant turn, tool-result batch) and at most one final
\* assistant entry, and N + 1 model sends were made.
C7_Transcript ==
    pc \in {"loop", "call", "await", "extract", "done"} =>
        /\ sends = rounds + 1
        /\ Len(history) \in {1 + 2 * rounds, 2 + 2 * rounds}
        /\ history[1] = "user"
        /\ \A k \in 1..rounds : history[2 * k] = "assistant" /\ history[2 * k + 1] = "tool"
        /\ (Len(history) = 2 + 2 * rounds => history[Len(history)] = "assistant")

\* C7 witness: one tool round, then a final answer: four entries.
C7_Witness ==
    /\ pc = "done"
    /\ outcome = "returned"
    /\ rounds = 1
    /\ history = <<"user", "assistant", "tool", "assistant">>

\* C8: within a round the calls are dispatched in request order, one at a
\* time, the i-th result of the batch is the result of the i-th request,
\* and the round's results go back in one send.
C8_OrderedDispatch ==
    /\ Cardinality(inflight) <= 1
    /\ (pc = "await" => inflight = {[pos |-> Len(call_log) + 1,
                                     name |-> RequestsOf(response)[Len(call_log) + 1]]})
    /\ \A i \in 1..Len(call_log) : call_log[i].pos = i
    /\ (pc \in {"call", "await"} \/ wire.kind = "function_responses" =>
           /\ Len(function_responses) = Len(call_log)
           /\ \A i \in 1..Len(function_responses) :
                 /\ function_responses[i].name = RequestsOf(response)[i]
                 /\ function_responses[i].response = ConcatText(call_log[i].result.content))
    /\ (wire.kind = "function_responses" =>
           /\ wire.batch = function_responses
           /\ Len(wire.batch) = Len(RequestsOf(response))
           /\ sends = rounds + 1)

\* C8 witness: a batch of two results for two different tools with two
\* different results is on its way to the model.
C8_Witness ==
    /\ wire.kind = "function_responses"
    /\ Len(wire.batch) = 2
    /\ wire.batch[1].name # wire.batch[2].name
    /\ wire.batch[1].response # wire.batch[2].response

NoTextAtAll(r) ==
    /\ ~r.text.has
    /\ \A i \in 1..Len(r.candidates) :
          \A j \in 1..Len(r.candidates[i].list) : ~r.candidates[i].list[j].hasText

\* C10 as stated: a query that returns on a response without any
\* extractable text returns the fallback sentinel.
C10_Original ==
    pc = "done" /\ outcome = "returned" /\ NoTextAtAll(response) =>
        final_response = Sentinel

\* The retryable failures among the requests made so far.
Failures == Len(SelectSeq(requests, LAMBDA o : o \in Retryable))

\* C5 as stated: with k retryable failures followed by a success, k <
\* max_retries, exactly k + 1 requests are made and the successful response
\* is returned; with k >= max_retries failures exactly max_retries requests
\* are made and the call fails with the last failure.
C5_Original ==
    f_pc = "done" /\ (\A i \in DOMAIN requests : requests[i] # "other") =>
        /\ (Failures < max_retries /\ requests # <<>> /\ requests[Len(requests)] = "ok" =>
               /\ Len(requests) = Failures + 1
               /\ f_outcome = "returned"
               /\ f_result = [req |-> Failures + 1, kind |-> "ok"])
        /\ (Failures >= max_retries =>
               /\ Len(requests) = max_retries
               /\ f_outcome = "raised"
               /\ f_result = [req |-> max_retries, kind |-> requests[max_retries]])

\* C11: a failure that is neither a timeout nor an HTTP status error is
\* propagated at once: its request is the last one made, the call has ended
\* with that failure, and no sleep and no attempt follows it, whatever the
\* budget left.
C11_FatalPropagates ==
    \A i \in DOMAIN requests :
        requests[i] = "other" =>
            /\ i = Len(requests)
            /\ f_pc = "done"
            /\ f_outcome = "raised"
            /\ f_result = [req |-> i, kind |-> "other"]
            /\ attempt = i - 1
            /\ Len(sleeps) = i - 1

\* C11 witness: the second of four allowed attempts failed fatally.
C11_Witness ==
    /\ f_pc = "done"
    /\ max_retries = 4
    /\ Len(requests) = 2
    /\ requests[2] = "other"

RECURSIVE SumSeq(_)
SumSeq(q) == IF q = <<>> THEN 0 ELSE Head(q) + SumSeq(Tail(q))

\* C12: the i-th sleep lasts 2^(i-1) seconds and follows the i-th failed
\* attempt; a call that succeeds after k failures has slept 2^k - 1 in all;
\* nothing is slept after the last attempt, whose failure is propagated.
C12_Backoff ==
    /\ \A i \in DOMAIN sleeps : sleeps[i] = 2 ^ (i - 1)
    /\ Len(sleeps) = attempt
    /\ (f_pc = "sleep" => Len(requests) = Len(sleeps) + 1 /\ attempt < max_retries - 1)
    /\ (f_pc = "done" /\ requests # <<>> => Len(sleeps) = Len(requests) - 1)
    /\ (f_outcome = "returned" => SumSeq(sleeps) = 2 ^ (Len(requests) - 1) - 1)
    /\ (f_outcome = "raised" =>
           f_result = [req |-> Len(requests), kind |-> requests[Len(requests)]])

\* C12 witness: two timeouts, then a success: 1 + 2 seconds slept.
C12_Witness ==
    /\ f_outcome = "returned"
    /\ requests = <<"timeout", "timeout", "ok">>
    /\ sleeps = <<1, 2>>

\* C13 as stated: for every max_retries, 0 included, a call either returns
\* a response whose status check passed or fails with an error (a retryable
\* one only once the budget is used up); it never ends normally without a
\* response nor without having made a request.
C13_Original ==
    f_pc = "done" =>
        /\ \/ f_outcome = "returned" /\ f_result.kind = "ok"
           \/ /\ f_outcome = "raised"
              /\ (f_result.kind \in {"timeout", "status"} => Len(requests) = max_retries)
        /\ Len(requests) >= 1

\* The lines of InputLines that are quit once trimmed and lower-cased
QuitLines == { <<"q", "u", "i", "t">>, <<" ", "Q", "u", "I", "T", " ">> }

\* connect_to_server returned, so chat_loop was entered
ChatEntered == proto = <<ProtoCall("initialize", TRUE), ProtoCall("list_tools", TRUE)>>

\* chat_loop was entered and has been left
ChatOver == ChatEntered /\ m_pc \in {"cleanup", "ended"}

\* Once chat_loop has taken over from a process_query that raised, the error
\* is printed and is not on its way out of the loop
QueryErrorReported ==
    (m_pc # "query" /\ pc = "done" /\ outcome = "raised") =>
        (printed = "error" /\ m_exc # "error")

\* Once quit was read the loop is over: no line is read, no query processed
QuitIsFinal == quit_read => (m_pc \in {"cleanup", "ended"} /\ pc \in {"off", "done"})

\* quit is recognised exactly on the lines that are quit once trimmed, in any case
QuitCriterion == quit_read <=> last_line \in QuitLines

\* C14 as stated: an error raised while a query is processed is reported and
\* the loop reads the next line; the loop ends only when a line equal to quit
\* (trimmed, any case) is read, and then no further query is processed.
C14_Original ==
    /\ QueryErrorReported
    /\ QuitCriterion
    /\ QuitIsFinal
    /\ (ChatOver => quit_read)

\* C14 amended: an error raised while a query is processed is reported and the
\* loop reads the next line; chat_loop returns only when a line equal to quit
\* (trimmed, any case) is read, and then no further query is processed; the
\* one other way out of the loop is an interrupt (KeyboardInterrupt or the
\* cancellation of the task), which no handler of the loop catches.
C14_Amended ==
    /\ QueryErrorReported
    /\ QuitCriterion
    /\ QuitIsFinal
    /\ (ChatOver => (quit_read \/ m_exc = "interrupt"))
    /\ (quit_read => (m_exc = "none" /\ ChatOver))

\* C14 witness: the only query of the session failed, the error was printed,
\* and the loop went on to read " QuIT ", which ended it.
C14_Witness ==
    /\ queries = 1 /\ outcome = "raised" /\ printed = "error"
    /\ quit_read /\ last_line = <<" ", "Q", "u", "I", "T", " ">>
    /\ m_pc = "ended"

\* C15 as stated: once the channel to the tool server has broken during a
\* query and chat_loop has taken over, the error is on its way out of the
\* loop (not swallowed), the program is cleaning up or has ended, and no
\* further line is read or query processed on the broken session.
C15_Original ==
    (transport = "broken" /\ ~(m_pc = "query" /\ pc = "done")) =>
        (m_pc \in {"cleanup", "ended"} /\ m_exc = "error")

\* The positions of proto at which list_tools was called
ListCalls == {i \in DOMAIN proto : proto[i].call = "list_tools"}

\* C18: in a client session list_tools is called only after initialize has
\* returned, it is called once (never again for a query or a round), the
\* catalog is the one it returned, and process_query, hence every call_tool,
\* runs only after list_tools has returned.
C18_ProtocolOrder ==
    /\ \A i \in ListCalls : i > 1 /\ proto[i - 1] = ProtoCall("initialize", TRUE)
    /\ Cardinality(ListCalls) <= 1
    /\ (m_pc \in {"read", "query"} => ChatEntered)
    /\ (~ChatEntered => (tools = <<>> /\ pc = "off" /\ queries = 0))
    /\ ((inflight # {} \/ dispatched # <<>> \/ sends > 0) => ChatEntered)

\* C18 witness: the second query of a session is in its second round, waiting
\* for a tool call, and list_tools has been called once.
C18_Witness ==
    /\ queries = 2 /\ pc = "await" /\ rounds >= 1
    /\ Cardinality(ListCalls) = 1

\* process_query is at its first statement with nothing left of an earlier call
FreshFrame ==
    /\ iteration = 0 /\ rounds = 0 /\ sends = 0 /\ undispatched = 0
    /\ response = NoResponse /\ wire = NoMessage
    /\ function_calls = <<>> /\ function_responses = <<>> /\ idx = 1
    /\ inflight = {} /\ dispatched = <<>> /\ call_log = <<>>
    /\ outcome = "none" /\ final_response = <<>>

\* C19: every process_query of a session starts from the same state, whatever
\* the queries before it did: nothing of an earlier call is left, the round
\* counter is 0 and bounded by max_iterations in every query, the transcript
\* of the new chat holds the query's own messages only, and the first message
\* carries the catalog of the session; process_query never changes self.tools.
C19_Isolated ==
    /\ []((m_pc = "query" /\ pc = "idle") => FreshFrame)
    /\ []((m_pc = "query" /\ pc = "model" /\ sends = 1) =>
             /\ history = <<"user">>
             /\ iteration = 0 /\ rounds = 0
             /\ wire = [kind |-> "query", batch |-> <<>>,
                        tools |-> ToolsArgument(convert_tools_to_gemini_format(tools))])
    /\ [](m_pc = "query" => (iteration <= max_iterations /\ rounds <= max_iterations))
    /\ []((m_pc = "query" /\ pc # "idle") =>
             (history[1] = "user" /\ Len(history) <= 2 + 2 * rounds))
    /\ [][m_pc = "query" => tools' = tools]_vars

\* C19 witness: the first query of the session used all max_iterations rounds
\* and the second one has used all max_iterations rounds too and returned.
C19_Witness ==
    /\ queries = 2 /\ spent
    /\ rounds = max_iterations /\ pc = "done" /\ outcome = "returned"

\* The upstream requests made so far for the tool call being served
RECURSIVE SumRequests(_)
SumRequests(fs) == IF fs = <<>> THEN 0 ELSE Head(fs).requests + SumRequests(Tail(fs))

Upstream == SumRequests(h_fetches) + (IF h_current = "none" THEN 0 ELSE Len(requests))

\* The call lacks an argument its tool requires, or has no arguments at all
\* (an empty state is no state)
LacksArguments ==
    \/ h_args.none
    \/ h_args.latitude = "absent" /\ h_args.longitude = "absent" /\ h_args.state = "absent"
    \/ h_name = "get_forecast" /\ (h_args.latitude = "absent" \/ h_args.longitude = "absent")
    \/ h_name = "get_alerts" /\ h_args.state \in {"absent", ""}

\* The errors that reject a call for missing arguments
MissingErrors ==
    { HandlerError("Arguments manquants"), HandlerError("Latitude et longitude requises"),
      HandlerError("Code d'Etat requis") }

FetchesStarted ==
    [i \in DOMAIN h_fetches |-> h_fetches[i].what] \o
    (IF h_current = "none" THEN <<>> ELSE <<h_current>>)

\* C20: get_forecast fetches the forecast only after the grid point fetch
\* returned; a fetch that raised (its retries used up, or a fatal error) is
\* the last of the call, which then ends with an error and no content; every
\* fetch makes at most max_retries requests, so get_forecast makes at most
\* 2 * max_retries of them and get_alerts at most max_retries.
C20_FetchOrder ==
    /\ FetchesStarted \in
           CASE h_name = "get_forecast" -> {<<>>, <<"points">>, <<"points", "forecast">>}
             [] h_name = "get_alerts" -> {<<>>, <<"alerts">>}
             [] OTHER -> {<<>>}
    /\ (Len(FetchesStarted) = 2 => h_fetches[1].outcome = "returned")
    /\ \A i \in DOMAIN h_fetches :
           /\ h_fetches[i].requests <= DefaultMaxRetries
           /\ h_fetches[i].outcome \in {"returned", "raised"}
           /\ h_fetches[i].outcome = "raised" =>
                  /\ i = Len(h_fetches) /\ h_current = "none"
                  /\ h_pc = "done" /\ h_outcome.kind = "error"
    /\ (h_current # "none" => Len(requests) <= DefaultMaxRetries)
    /\ (h_name = "get_forecast" => Upstream <= 2 * DefaultMaxRetries)
    /\ (h_name = "get_alerts" => Upstream <= DefaultMaxRetries)

\* C20 witness: the grid point fetch of a get_forecast call timed out on each
\* of its max_retries attempts; the call failed and no forecast was fetched.
C20_Witness ==
    /\ h_pc = "done" /\ h_name = "get_forecast"
    /\ h_fetches = <<[what |-> "points", requests |-> DefaultMaxRetries,
                      outcome |-> "raised"]>>
    /\ h_outcome = HandlerError("fetch")

\* C16: in the client, once main is in its try block cleanup is called
\* exactly once before main ends, on each way out (connect_to_server raised,
\* chat_loop returned, an exception left chat_loop), and it leaves nothing on
\* the exit stack; before that it has not been called.  In the server, the
\* HTTP client a tool call opened is closed when the call has ended, with
\* content or with an error, and is open only while the call runs.
C16_Released ==
    /\ cleanups <= 1
    /\ (m_pc = "ended" => (cleanups = 1 /\ stack = {}))
    /\ (m_pc \notin {"ended", "none"} => cleanups = 0)
    /\ (m_pc \in {"start", "usage", "exit", "connect"} => stack = {})
    /\ (h_pc = "done" =>
           /\ h_client \in {"closed", "unopened"}
           /\ (h_client = "unopened" => h_outcome = HandlerError("Arguments manquants")))
    /\ (h_client = "open" => h_pc \in {"dispatch", "fetch"})
    /\ (h_pc \in {"idle", "entry"} => h_client = "unopened")

\* C16 witness: an interrupt left chat_loop of a connected client, and main
\* has ended after one cleanup.
C16_Witness ==
    /\ m_pc = "ended" /\ m_exc = "interrupt" /\ ChatEntered
    /\ cleanups = 1 /\ stack = {}

====
